---- MODULE Spec2Model ----
(***************************************************************************)
(* Model of the cat utility of src/src/main.rs: the option resolver of     *)
(* main, the stream driver cat and the line formatter format_buffer.       *)
(* Bytes are the integers 0..255, a line or a file is a sequence of bytes, *)
(* stdout is the sequence of the chunks handed to write_all.               *)
(***************************************************************************)
EXTENDS Integers, Sequences, FiniteSets

VARIABLES
    args,             \* the Args struct of main (flags and files), mutated by the overrides
    fs,               \* the environment: the bytes behind stdin ("-") and behind each existing path
    pc,               \* "start" | "loop" | "read" | "exit" | "panic"
    needs_formatting, \* main's local, fixed once the options are resolved
    line_number,      \* main's local, threaded through every call of cat
    idx,              \* position of main's for loop in args.files
    pos,              \* reader position (1-based) in the source that cat has open
    stdin_pos,        \* how much of stdin earlier readers have consumed
    newlines,         \* cat's local blank counter
    stdout,           \* chunks written to standard output, in order
    stderr,           \* diagnostics written to standard error, in order
    input,            \* history: the chunks read_until has returned, in order
    parsed_number     \* history: the number flag as Args::parse returned it

vars == <<args, fs, pc, needs_formatting, line_number, idx, pos, stdin_pos,
          newlines, stdout, stderr, input, parsed_number>>

----------------------------------------------------------------------------
(* Bytes the program names.                                                *)

FILENAME_STDIN == "-"
LF == 10
TAB == 9
DOLLAR == 36
CARET == 94

\* Longest list of sources on the command line.
MaxFiles == 2

----------------------------------------------------------------------------
(* Sequence helpers.                                                       *)

\* Iterator::position(|&x| x == 10): index of the first line feed, 0 for None.
RECURSIVE PositionFrom(_, _)
PositionFrom(line, i) ==
    IF i > Len(line) THEN 0
    ELSE IF line[i] = LF THEN i
    ELSE PositionFrom(line, i + 1)

NewLineIdx(line) == PositionFrom(line, 1)

\* Vec::insert(i, b) with i a 1-based index.
InsertAt(line, i, b) == SubSeq(line, 1, i - 1) \o <<b>> \o SubSeq(line, i, Len(line))

\* i32::to_string for the values the line counter takes (it starts at 1).
RECURSIVE to_string(_)
to_string(n) ==
    IF n < 10 THEN <<48 + n>>
    ELSE to_string(n \div 10) \o <<48 + (n % 10)>>

\* All the chunks of a sequence of chunks, joined.
RECURSIVE Concat(_)
Concat(chunks) ==
    IF chunks = <<>> THEN <<>>
    ELSE Head(chunks) \o Concat(Tail(chunks))

----------------------------------------------------------------------------
(* format_buffer, lines 58-124.                                            *)

\* Mutant of EscapeByte: the tab is not kept out of the control bytes.
EscapeByte_tab(c) ==
    IF c < 32 /\ c # LF THEN <<CARET, c + 64>>
    ELSE IF c = 127 THEN <<CARET, 63>>
    ELSE IF c > 127 THEN
        IF c >= 128 + 32 THEN
            IF c < 255 THEN <<77, 45, c - 128>>
            ELSE <<77, 45, CARET, 63>>
        ELSE <<77, 45, CARET, c - 128 + 64>>
    ELSE <<c>>

\* The closure of the show_non_printing flat_map, lines 83-101.
EscapeByte(c) ==
    IF c < 32 /\ c # LF /\ c # TAB THEN <<CARET, c + 64>>
    ELSE IF c = 127 THEN <<CARET, 63>>
    ELSE IF c > 127 THEN
        IF c >= 128 + 32 THEN
            IF c < 255 THEN <<77, 45, c - 128>>
            ELSE <<77, 45, CARET, 63>>
        ELSE <<77, 45, CARET, c - 128 + 64>>
    ELSE <<c>>

\* The closure of the show_tabs flat_map, lines 109-115.
EscapeTab(c) == IF c = TAB THEN <<CARET, 73>> ELSE <<c>>

\* line 59
IsNewLine(line) == Len(line) = 1 /\ line[1] = LF

\* lines 62-68: the line is cleared and the function returns early.
Squeezed(line, a, nl) == IsNewLine(line) /\ a.squeeze_blank /\ nl + 1 > 1

\* lines 62-72: the blank counter after the call.
NewlinesAfter(line, a, nl) ==
    IF IsNewLine(line) /\ a.squeeze_blank THEN nl + 1 ELSE 0

\* Mutant of EndPanics: the index is unwrapped where it is computed (line 60).
EndPanics_eager(line, a) == NewLineIdx(line) = 0

\* lines 75-76: new_line_idx.unwrap() panics when the line holds no line feed.
EndPanics(line, a) == a.show_ends /\ NewLineIdx(line) = 0

\* Mutant of ShowEnds: the marker goes after the line feed.
ShowEnds_after(line, a) ==
    IF a.show_ends THEN InsertAt(line, NewLineIdx(line) + 1, DOLLAR) ELSE line

\* lines 75-77
ShowEnds(line, a) ==
    IF a.show_ends THEN InsertAt(line, NewLineIdx(line), DOLLAR) ELSE line

\* lines 81-102: flat_map of the closure over the line, collected.
RECURSIVE EscapeBytes(_)
EscapeBytes(line) ==
    IF line = <<>> THEN <<>>
    ELSE EscapeByte(Head(line)) \o EscapeBytes(Tail(line))

\* lines 80-103
ShowNonPrinting(line, a) ==
    IF a.show_non_printing THEN EscapeBytes(line) ELSE line

\* lines 107-116: flat_map of the closure over the line, collected.
RECURSIVE EscapeTabs(_)
EscapeTabs(line) ==
    IF line = <<>> THEN <<>>
    ELSE EscapeTab(Head(line)) \o EscapeTabs(Tail(line))

\* lines 106-117
ShowTabs(line, a) ==
    IF a.show_tabs THEN EscapeTabs(line) ELSE line

\* line 120
Numbered(line, a) == a.number \/ (a.number_nonblank /\ ~IsNewLine(line))

\* line 122
NextLineNumber(n) == n + 1

\* lines 120-123; raw is the line as read, which is_new_line was computed from.
AddLineNumber(raw, line, a, n) ==
    IF Numbered(raw, a) THEN to_string(n) \o <<32>> \o line ELSE line

\* The whole call: the line left in the buffer, the two counters, and whether
\* the call panicked (the buffer and the counters then do not matter).
FormatBuffer(line, a, n, nl) ==
    IF Squeezed(line, a, nl) THEN
        [line |-> <<>>, line_number |-> n, newlines |-> NewlinesAfter(line, a, nl),
         panicked |-> FALSE]
    ELSE IF EndPanics(line, a) THEN
        [line |-> line, line_number |-> n, newlines |-> NewlinesAfter(line, a, nl),
         panicked |-> TRUE]
    ELSE
        [line |-> AddLineNumber(line, ShowTabs(ShowNonPrinting(ShowEnds(line, a), a), a), a, n),
         line_number |-> IF Numbered(line, a) THEN NextLineNumber(n) ELSE n,
         newlines |-> NewlinesAfter(line, a, nl),
         panicked |-> FALSE]

----------------------------------------------------------------------------
(* main, lines 160-198.                                                    *)

\* Mutant of ResolveArgs: number_nonblank does not switch number off.
ResolveArgs_keeps_number(a) ==
    LET a1 == IF a.e THEN [a EXCEPT !.show_ends = TRUE, !.show_non_printing = TRUE] ELSE a
        a3 == IF a1.show_all
              THEN [a1 EXCEPT !.show_ends = TRUE, !.show_non_printing = TRUE, !.show_tabs = TRUE]
              ELSE a1
        a4 == IF a3.t THEN [a3 EXCEPT !.show_non_printing = TRUE, !.show_tabs = TRUE] ELSE a3
    IN a4

\* lines 163-182: aliases and overrides, in the order of the code.
ResolveArgs(a) ==
    LET a1 == IF a.e THEN [a EXCEPT !.show_ends = TRUE, !.show_non_printing = TRUE] ELSE a
        a2 == IF a1.number_nonblank THEN [a1 EXCEPT !.number = FALSE] ELSE a1
        a3 == IF a2.show_all
              THEN [a2 EXCEPT !.show_ends = TRUE, !.show_non_printing = TRUE, !.show_tabs = TRUE]
              ELSE a2
        a4 == IF a3.t THEN [a3 EXCEPT !.show_non_printing = TRUE, !.show_tabs = TRUE] ELSE a3
    IN a4

\* lines 185-190
NeedsFormatting(a) ==
    a.number \/ a.number_nonblank \/ a.show_ends \/ a.squeeze_blank
        \/ a.show_tabs \/ a.show_non_printing

----------------------------------------------------------------------------
(* cat, lines 127-158.                                                     *)

\* BufRead::read_until(b'\n'): the bytes from position p up to and including
\* the next line feed, or up to the end of the source.
ReadUntil(buf, p) ==
    LET rest == SubSeq(buf, p, Len(buf))
        k == NewLineIdx(rest)
    IN IF k = 0 THEN rest ELSE SubSeq(rest, 1, k)

\* lines 141-147: what one iteration hands to write_all, and the state it leaves.
Emit(line, a, nf, n, nl) ==
    IF ~nf THEN [line |-> line, line_number |-> n, newlines |-> nl, panicked |-> FALSE]
    ELSE FormatBuffer(line, a, n, nl)

----------------------------------------------------------------------------
(* The inputs of a run.                                                    *)

\* Source names: standard input, a path that exists, a path that does not.
Paths == {FILENAME_STDIN, "f", "x"}
Existing == {FILENAME_STDIN, "f"}

\* args.files is never empty: clap fills in "-" (line 53).
FileLists == UNION {[1..n -> Paths] : n \in 1..MaxFiles}

\* Every combination of the flags the program reads, as Args::parse can return
\* them; u is accepted and never read (lines 46-48), so it is left unset.
AllArgs ==
    [show_all: BOOLEAN, number_nonblank: BOOLEAN, e: BOOLEAN, show_ends: BOOLEAN,
     number: BOOLEAN, squeeze_blank: BOOLEAN, t: BOOLEAN, show_tabs: BOOLEAN,
     u: {FALSE}, show_non_printing: BOOLEAN, files: FileLists]

\* What a source can hold: nothing, one blank line, an unterminated line, the
\* scenario "a<TAB>b", blank, blank, "c", and a line of one control byte.
Contents ==
    { <<>>,
      <<LF>>,
      <<97>>,
      <<97, TAB, 98, LF, LF, LF, 99, LF>>,
      <<1, LF>> }

Used(a, p) == \E i \in 1..Len(a.files) : a.files[i] = p

\* A source the run never opens holds nothing.
Holdings(a, p, contents) == IF Used(a, p) THEN contents ELSE {<<>>}

Environments(a, contents) ==
    {[p \in Existing |-> IF p = FILENAME_STDIN THEN s ELSE f] :
        s \in Holdings(a, FILENAME_STDIN, contents), f \in Holdings(a, "f", contents)}

InitWith(argset, contents) ==
    /\ args \in argset
    /\ fs \in Environments(args, contents)
    /\ pc = "start"
    /\ needs_formatting = FALSE
    /\ line_number = 1
    /\ idx = 1
    /\ pos = 1
    /\ stdin_pos = 0
    /\ newlines = 0
    /\ stdout = <<>>
    /\ stderr = <<>>
    /\ input = <<>>
    /\ parsed_number = args.number

Init == InitWith(AllArgs, Contents)

----------------------------------------------------------------------------
(* The steps of a run.                                                     *)

file == args.files[idx]

\* main, lines 163-193: overrides, needs_formatting, line_number = 1.
Resolve ==
    /\ pc = "start"
    /\ args' = ResolveArgs(args)
    /\ needs_formatting' = NeedsFormatting(args')
    /\ line_number' = 1
    /\ idx' = 1
    /\ pc' = "loop"
    /\ UNCHANGED <<fs, pos, stdin_pos, newlines, stdout, stderr, input, parsed_number>>

\* Mutant of OpenOk: the line counter is a local of cat and starts again at 1.
OpenOk_resets ==
    /\ pc = "loop"
    /\ idx <= Len(args.files)
    /\ file \in Existing
    /\ pos' = IF file = FILENAME_STDIN THEN stdin_pos + 1 ELSE 1
    /\ newlines' = 0
    /\ line_number' = 1
    /\ pc' = "read"
    /\ UNCHANGED <<args, fs, needs_formatting, idx, stdin_pos,
                   stdout, stderr, input, parsed_number>>

\* cat, lines 128-135: the reader is opened, the buffer and the counter are fresh.
OpenOk ==
    /\ pc = "loop"
    /\ idx <= Len(args.files)
    /\ file \in Existing
    /\ pos' = IF file = FILENAME_STDIN THEN stdin_pos + 1 ELSE 1
    /\ newlines' = 0
    /\ pc' = "read"
    /\ UNCHANGED <<args, fs, needs_formatting, line_number, idx, stdin_pos,
                   stdout, stderr, input, parsed_number>>

\* Mutant of OpenFail: the failure is reported and the loop moves on.
OpenFail_skips ==
    /\ pc = "loop"
    /\ idx <= Len(args.files)
    /\ file # FILENAME_STDIN
    /\ file \notin Existing
    /\ stderr' = Append(stderr, "open")
    /\ idx' = idx + 1
    /\ UNCHANGED <<args, fs, pc, needs_formatting, line_number, pos, stdin_pos,
                   newlines, stdout, input, parsed_number>>

\* cat, line 132: File::open(file).unwrap() on a path that cannot be opened.
OpenFail ==
    /\ pc = "loop"
    /\ idx <= Len(args.files)
    /\ file # FILENAME_STDIN
    /\ file \notin Existing
    /\ stderr' = Append(stderr, "open")
    /\ pc' = "panic"
    /\ UNCHANGED <<args, fs, needs_formatting, line_number, idx, pos, stdin_pos,
                   newlines, stdout, input, parsed_number>>

\* cat, lines 139-150: Ok(bytes_read) with bytes_read > 0.
ReadLine ==
    /\ pc = "read"
    /\ pos <= Len(fs[file])
    /\ LET line == ReadUntil(fs[file], pos)
           r == Emit(line, args, needs_formatting, line_number, newlines)
       IN /\ input' = Append(input, line)
          /\ IF r.panicked
             THEN /\ stderr' = Append(stderr, "unwrap")
                  /\ pc' = "panic"
                  /\ UNCHANGED <<line_number, newlines, pos, stdout>>
             ELSE /\ stdout' = Append(stdout, r.line)
                  /\ line_number' = r.line_number
                  /\ newlines' = r.newlines
                  /\ pos' = pos + Len(line)
                  /\ UNCHANGED <<stderr, pc>>
    /\ UNCHANGED <<args, fs, needs_formatting, idx, stdin_pos, parsed_number>>

\* The reader goes out of scope and main's loop moves on (lines 157, 195).
Close ==
    /\ stdin_pos' = IF file = FILENAME_STDIN THEN pos - 1 ELSE stdin_pos
    /\ idx' = idx + 1
    /\ pc' = "loop"

\* cat, line 151: Ok(0), end of the source.
ReadEof ==
    /\ pc = "read"
    /\ pos > Len(fs[file])
    /\ Close
    /\ UNCHANGED <<args, fs, needs_formatting, line_number, pos, newlines,
                   stdout, stderr, input, parsed_number>>

\* Mutant of ReadErr: the error is unwrapped, as the one of File::open is.
ReadErr_aborts ==
    /\ pc = "read"
    /\ stderr' = Append(stderr, "read")
    /\ pc' = "panic"
    /\ UNCHANGED <<args, fs, needs_formatting, line_number, idx, pos, stdin_pos,
                   newlines, stdout, input, parsed_number>>

\* cat, lines 152-155: Err(e), the diagnostic is printed and the loop is left.
ReadErr ==
    /\ pc = "read"
    /\ stderr' = Append(stderr, "read")
    /\ Close
    /\ UNCHANGED <<args, fs, needs_formatting, line_number, pos, newlines,
                   stdout, input, parsed_number>>

\* main, lines 195-198: the list is exhausted and main returns.
Exit ==
    /\ pc = "loop"
    /\ idx > Len(args.files)
    /\ pc' = "exit"
    /\ UNCHANGED <<args, fs, needs_formatting, line_number, idx, pos, stdin_pos,
                   newlines, stdout, stderr, input, parsed_number>>

Next == Resolve \/ OpenOk \/ OpenFail \/ ReadLine \/ ReadEof \/ ReadErr \/ Exit

Spec == Init /\ [][Next]_vars

TypeOK ==
    /\ pc \in {"start", "loop", "read", "exit", "panic"}
    /\ line_number \in Nat
    /\ newlines \in Nat
    /\ Len(stdout) <= Len(input)

----------------------------------------------------------------------------
(* Vocabulary of the properties.  stdout[i] is what the run wrote for      *)
(* input[i]: every iteration of cat's loop writes exactly one chunk.       *)

Blank(i) == input[i] = <<LF>>
Emitted(i) == i <= Len(stdout) /\ stdout[i] # <<>>
Terminated(line) == line # <<>> /\ line[Len(line)] = LF
Reported(what) == \E k \in 1..Len(stderr) : stderr[k] = what
Resolved == pc # "start"
Numbering == args.number \/ args.number_nonblank

\* The decimal number a chunk starts with, read up to its first space;
\* -1 when the chunk does not start with digits followed by a space.
RECURSIVE ParseFrom(_, _, _)
ParseFrom(chunk, i, acc) ==
    IF i > Len(chunk) THEN -1
    ELSE IF chunk[i] = 32 THEN (IF i = 1 THEN -1 ELSE acc)
    ELSE IF chunk[i] >= 48 /\ chunk[i] <= 57 THEN ParseFrom(chunk, i + 1, 10 * acc + chunk[i] - 48)
    ELSE -1

LeadingNumber(chunk) == ParseFrom(chunk, 1, 0)

\* The emitted lines that the active numbering mode numbers, up to position i.
NumberedUpTo(i) ==
    {j \in 1..i : Emitted(j) /\ (args.number \/ ~Blank(j))}

----------------------------------------------------------------------------
(* C1: with squeeze_blank active, no two consecutive emitted lines are     *)
(* both blank, over any number of sources; in particular not when one      *)
(* source ends with a blank line and the next source starts with one.      *)
C1_SqueezeBlankBound ==
    (Resolved /\ args.squeeze_blank) =>
        \A i, j \in 1..Len(stdout) :
            (i < j /\ Blank(i) /\ Blank(j) /\ Emitted(i) /\ Emitted(j))
                => \E k \in (i + 1)..(j - 1) : Emitted(k)

----------------------------------------------------------------------------
(* C2: with numbering active, the numbers prepended to the emitted lines   *)
(* are 1, 2, 3, ... in output order: the k-th numbered line of the run     *)
(* carries k, whichever source it came from.                               *)
C2_NumberingSequence ==
    (Resolved /\ Numbering) =>
        /\ \A i \in 1..Len(stdout) :
              i \in NumberedUpTo(i)
                  => LeadingNumber(stdout[i]) = Cardinality(NumberedUpTo(i))
        /\ line_number = 1 + Cardinality(NumberedUpTo(Len(stdout)))

\* A finished run over two different non-empty sources that numbered lines of both.
C2_Witness ==
    /\ pc = "exit"
    /\ Numbering
    /\ Len(args.files) = 2
    /\ args.files[1] # args.files[2]
    /\ fs[args.files[1]] # <<>>
    /\ fs[args.files[2]] # <<>>
    /\ stderr = <<>>
    /\ \E i \in 1..Len(stdout) : stdout[i] # <<>> /\ LeadingNumber(stdout[i]) = 5

----------------------------------------------------------------------------
(* C3: formatting never fails: a line without a line feed, read with       *)
(* show_ends active, gets no `$`, is formatted by the other options and is *)
(* emitted.                                                                *)
C3_FormatNeverFails ==
    /\ ~Reported("unwrap")
    /\ (Resolved /\ args.show_ends) =>
          \A i \in 1..Len(input) :
              ~Terminated(input[i]) =>
                  /\ Emitted(i)
                  /\ \A k \in 1..Len(stdout[i]) : stdout[i][k] # DOLLAR

----------------------------------------------------------------------------
(* C4: the non-printing escape of section 4.2, byte by byte.               *)

\* Section 4.2 read literally; lf_exempt says whether c' = 10 (byte 138) is
\* kept out of the `M-^` case, as the section states it.
Section42(c, lf_exempt) ==
    IF c < 32 /\ c # 10 /\ c # 9 THEN <<94, c + 64>>
    ELSE IF c = 127 THEN <<94, 63>>
    ELSE IF c > 127 THEN
        LET d == c - 128
        IN IF d < 32 /\ (lf_exempt => d # 10) THEN <<77, 45, 94, d + 64>>
           ELSE IF d = 127 THEN <<77, 45, 94, 63>>
           ELSE <<77, 45, d>>
    ELSE <<c>>

\* The mapping of a whole line.
RECURSIVE Section42Line(_, _)
Section42Line(line, lf_exempt) ==
    IF line = <<>> THEN <<>>
    ELSE Section42(Head(line), lf_exempt) \o Section42Line(Tail(line), lf_exempt)

OnlyNonPrinting ==
    /\ Resolved
    /\ args.show_non_printing
    /\ ~args.show_ends /\ ~args.show_tabs /\ ~args.squeeze_blank /\ ~Numbering

\* Runs with -v alone over every source of one byte, with and without a line feed.
ByteContents == {<<c>> : c \in 0..255} \cup {<<c, LF>> : c \in 0..255}

BytesArgs ==
    {a \in AllArgs :
        /\ a.show_non_printing
        /\ ~a.show_all /\ ~a.number_nonblank /\ ~a.e /\ ~a.show_ends /\ ~a.number
        /\ ~a.squeeze_blank /\ ~a.t /\ ~a.show_tabs
        /\ ~(Used(a, FILENAME_STDIN) /\ Used(a, "f"))}

InitBytes == InitWith(BytesArgs, ByteContents \cup {<<>>})

SpecBytes == InitBytes /\ [][Next]_vars

\* C4 as stated: with show_non_printing active every byte of a line is mapped
\* as section 4.2 states, byte 138 (c' = 10) giving `M-` and the byte 10.
C4_EscapeAsStated ==
    OnlyNonPrinting =>
        \A i \in 1..Len(stdout) : stdout[i] = Section42Line(input[i], TRUE)

\* C4 as amended: the same mapping, except that every c' < 32, c' = 10
\* included, gives `M-^` and c' + 64: byte 138 is written `M-^J`.
C4_EscapeAmended ==
    OnlyNonPrinting =>
        \A i \in 1..Len(stdout) : stdout[i] = Section42Line(input[i], FALSE)

\* The run that wrote byte 138 followed by a line feed.
C4_Witness ==
    /\ pc = "exit"
    /\ OnlyNonPrinting
    /\ input = <<(<<138, LF>>)>>
    /\ stdout = <<(<<77, 45, 94, 74, LF>>)>>

----------------------------------------------------------------------------
(* C5: a failing read.                                                     *)

----------------------------------------------------------------------------
(* C6: number together with number_nonblank behaves as number_nonblank     *)
(* alone: both command lines resolve to the same options, in which         *)
(* number_nonblank excludes number; no emitted blank line carries a        *)
(* number and every emitted non-blank line does.                           *)
C6_NonblankPrecedence ==
    /\ [][(pc = "start" /\ args.number_nonblank)
            => /\ args' = ResolveArgs([args EXCEPT !.number = FALSE])
               /\ args' = ResolveArgs([args EXCEPT !.number = TRUE])
               /\ needs_formatting' = NeedsFormatting(ResolveArgs([args EXCEPT !.number = FALSE]))]_vars
    /\ []((Resolved /\ args.number_nonblank) =>
            /\ ~args.number
            /\ \A i \in 1..Len(stdout) :
                  Emitted(i) =>
                      IF Blank(i) THEN LeadingNumber(stdout[i]) = -1
                      ELSE LeadingNumber(stdout[i]) = Cardinality(NumberedUpTo(i)))

\* A finished run that was given both flags and emitted a blank line and a
\* numbered non-blank line after it.
C6_Witness ==
    /\ pc = "exit"
    /\ parsed_number
    /\ args.number_nonblank
    /\ \E i, j \in 1..Len(stdout) :
          /\ i < j
          /\ Blank(i) /\ Emitted(i)
          /\ ~Blank(j) /\ LeadingNumber(stdout[j]) = 2

----------------------------------------------------------------------------
(* C7: for an emitted line that ends in a line feed, show_ends puts        *)
(* exactly one `$` directly before that line feed: the chunk written is    *)
(* the chunk the same options without show_ends write, with `$` before     *)
(* its final byte, one byte longer.                                        *)
WithoutEnds == [args EXCEPT !.show_ends = FALSE]

CountOf(b, line) == Cardinality({k \in 1..Len(line) : line[k] = b})

C7_EndMarkerPlacement ==
    [][(/\ pc = "read"
        /\ args.show_ends
        /\ Len(input') = Len(input) + 1
        /\ Terminated(input'[Len(input')]))
          => /\ pc' # "panic"
             /\ Len(stdout') = Len(stdout) + 1
             /\ LET line == input'[Len(input')]
                    out == stdout'[Len(stdout')]
                    w == Emit(line, WithoutEnds, NeedsFormatting(WithoutEnds),
                              line_number, newlines).line
                IN IF out = <<>> THEN w = <<>>
                   ELSE /\ Terminated(w)
                        /\ out = SubSeq(w, 1, Len(w) - 1) \o <<DOLLAR, LF>>
                        /\ Len(out) = Len(w) + 1
                        /\ CountOf(DOLLAR, out) = CountOf(DOLLAR, w) + 1]_vars

\* A finished run with show_ends, show_tabs and number that wrote "1 a^Ib$".
C7_Witness ==
    /\ pc = "exit"
    /\ args.show_ends /\ args.show_tabs /\ args.number
    /\ Len(stdout) >= 1
    /\ input[1] = <<97, TAB, 98, LF>>
    /\ stdout[1] = <<49, 32, 97, CARET, 73, 98, DOLLAR, LF>>

----------------------------------------------------------------------------
(* C8: with no option active the output is the bytes read, in order, the   *)
(* bytes of the sources in the order given once the run has ended, and     *)
(* each chunk written is what format_buffer with every option false        *)
(* leaves in the buffer, unterminated chunks included.                     *)

\* The bytes a run without read errors reads: standard input yields its
\* bytes to the first reader only.
RECURSIVE SourceBytes(_)
SourceBytes(n) ==
    IF n = 0 THEN <<>>
    ELSE SourceBytes(n - 1) \o
         (IF args.files[n] = FILENAME_STDIN
                /\ \E m \in 1..(n - 1) : args.files[m] = FILENAME_STDIN
          THEN <<>>
          ELSE fs[args.files[n]])

C8_PassthroughIdentity ==
    (Resolved /\ ~needs_formatting) =>
        /\ ~NeedsFormatting(args)
        /\ Len(stdout) = Len(input)
        /\ Concat(stdout) = Concat(input)
        /\ \A i \in 1..Len(stdout) :
              LET r == FormatBuffer(input[i], args, line_number, newlines)
              IN ~r.panicked /\ r.line = stdout[i]
        /\ (pc = "exit" /\ stderr = <<>>) => Concat(stdout) = SourceBytes(Len(args.files))

\* A finished run without options over f and stdin, one of them unterminated.
C8_Witness ==
    /\ pc = "exit"
    /\ ~needs_formatting
    /\ stderr = <<>>
    /\ args.files = <<"f", FILENAME_STDIN>>
    /\ fs["f"] = <<97, TAB, 98, LF, LF, LF, 99, LF>>
    /\ fs[FILENAME_STDIN] = <<97>>
    /\ Concat(stdout) = <<97, TAB, 98, LF, LF, LF, 99, LF, 97>>

----------------------------------------------------------------------------
(* C9: a source that cannot be opened makes the run fatal at once: the     *)
(* step leaves the output as it was and reads nothing, and nothing         *)
(* happens after it: no source is opened, no byte written, no success.     *)
C9_OpenFailureIsFatal ==
    /\ [][(pc = "loop" /\ idx <= Len(args.files) /\ args.files[idx] \notin Existing)
            => /\ pc' = "panic"
               /\ stderr' = Append(stderr, "open")
               /\ stdout' = stdout
               /\ input' = input
               /\ idx' = idx]_vars
    /\ [][pc # "panic"]_vars

\* The second source could not be opened, after the first had been written.
C9_Witness ==
    /\ pc = "panic"
    /\ stderr = <<"open">>
    /\ idx = 2
    /\ args.files = <<"f", "x">>
    /\ stdout # <<>>
    /\ Concat(stdout) = Concat(input)

----------------------------------------------------------------------------
(* C10: with squeeze_blank active a blank line that follows a blank line   *)
(* is discarded: nothing is written for it and it takes no line number; a  *)
(* non-blank line is never discarded.  The scenario "a<TAB>b", blank,      *)
(* blank, "c" with squeeze_blank and number gives the lines 1, 2 and 3.    *)
C10_SqueezeDiscard ==
    (Resolved /\ args.squeeze_blank) =>
        /\ \A i \in 2..Len(stdout) : (Blank(i) /\ Blank(i - 1)) => stdout[i] = <<>>
        /\ \A i \in 1..Len(stdout) : ~Blank(i) => stdout[i] # <<>>
        /\ Numbering => line_number = 1 + Cardinality(NumberedUpTo(Len(stdout)))
        /\ (/\ pc = "exit"
            /\ stderr = <<>>
            /\ args.files = <<"f">>
            /\ fs["f"] = <<97, TAB, 98, LF, LF, LF, 99, LF>>
            /\ args.number /\ ~args.show_ends /\ ~args.show_tabs /\ ~args.show_non_printing)
              => Concat(stdout) = <<49, 32, 97, TAB, 98, LF, 50, 32, LF, 51, 32, 99, LF>>

====
